---- MODULE Spec2Model ----
(***************************************************************************)
(* Model of permutation-rs: a Feistel network cipher over a BuildHasher    *)
(* (src/src/feistel.rs) and the cycle-walking Permutation built on it,     *)
(* with its iterators (src/src/permutation.rs).                            *)
(*                                                                         *)
(* A u64 is modelled at its full width as the set of its set bit           *)
(* positions, a subset of 0..63: {} is 0, {0, 2} is 5.  Shifts drop the    *)
(* bits that leave the word, as the machine does.  A usize that only       *)
(* counts bits (Feistel.bits) is a natural number.                         *)
(***************************************************************************)
EXTENDS Integers, Sequences, FiniteSets

\* ------------------------------------------------------------------ bounds

\* Domain sizes n and arguments x, begin, end are drawn from 0..MaxN (+1).
MaxN == 5
\* Seeds are drawn from 0..MaxSeed.
MaxSeed == 1
\* Hash builders are drawn from 0..MaxBob.
MaxBob == 2
\* A directly constructed cipher has 0..MaxRounds round keys.
MaxRounds == 2
\* Directly constructed ciphers take their small widths from 0..MaxBits.
MaxBits == 4

\* No call of get runs its loop more than StepCap times (the loop has no
\* counter; the model's count of its turns stops here).
StepCap == 20

\* ------------------------------------------------------- program constants

\* Width of u64.
WordBits == 64
\* Number of round keys Permutation::new derives.
Rounds == 5

\* ------------------------------------------------------------ u64 as bits

Word == 0..(WordBits - 1)

\* A u64 is a set of bit positions.
U64 == SUBSET Word

Max(S) == CHOOSE m \in S : \A k \in S : k <= m

Min(S) == CHOOSE m \in S : \A k \in S : m <= k

\* The u64 holding the natural number k (k < 2^30).
FromNat[k \in Nat] == {b \in 0..29 : (k \div (2 ^ b)) % 2 = 1}

\* The natural number a u64 below 2^30 holds.
Val[w \in U64] ==
    LET sum[b \in 0..30] ==
            IF b = 0 THEN 0
            ELSE sum[b - 1] + (IF (b - 1) \in w THEN 2 ^ (b - 1) ELSE 0)
    IN  sum[30]

\* x << s and x >> s for a shift s < 64.
Shl(x, s) == {b + s : b \in x} \cap Word

Shr(x, s) == {b - s : b \in {c \in x : c >= s}}

BitAnd(x, y) == x \cap y

BitOr(x, y) == x \cup y

BitXor(x, y) == (x \ y) \cup (y \ x)

\* x - 1 for x # 0.
Dec(x) == LET z == Min(x) IN (x \ {z}) \cup {b \in Word : b < z}

\* x + 1 for x # u64::MAX.
Inc(x) == LET z == Min(Word \ x) IN (x \ {b \in Word : b < z}) \cup {z}

\* x < y, x <= y on u64.
Lt(x, y) == x # y /\ Max(BitXor(x, y)) \in y

Le(x, y) == x = y \/ Lt(x, y)

leading_zeros(n) == IF n = {} THEN WordBits ELSE (WordBits - 1) - Max(n)

\* ------------------------------------------------- the BuildHasher capability

(***************************************************************************)
(* The hash builder `bob` is the caller's.  The model draws it from a      *)
(* family of deterministic accumulators: builder 0 hashes everything to 0, *)
(* builder b > 0 mixes each written word into a running value.  finish     *)
(* returns a full 64-bit word: the running value in bits 0..2, again in    *)
(* bits 30..32 and again in bits 61..63.                                   *)
(***************************************************************************)
Bobs == 0..MaxBob

Digest(w) == Val[w \cap 0..2] + Cardinality(w \ 0..2)

build_hasher(bob) == [bob |-> bob, h |-> bob]

write_u64(hs, w) ==
    IF hs.bob = 0 THEN hs
    ELSE [hs EXCEPT !.h = (3 * hs.h + Digest(w) + hs.bob) % 8]

finish(hs) ==
    LET v == FromNat[hs.h] IN BitOr(v, BitOr(Shl(v, 30), Shl(v, 61)))

\* BuildHasher::hash_one on a u64: one write, then finish.
hash_one(bob, k) == finish(write_u64(build_hasher(bob), k))

\* ----------------------------------------------------------------- Feistel

\* The assertion of Feistel::new: bits & 1 == 0.
FeistelNewOk(bits) == bits % 2 = 0

\* The value Feistel::new returns.
FeistelNewValue(bob, bits, keys) == [bob |-> bob, bits |-> bits, keys |-> keys]

HalfMask(f) == Dec(Shl({0}, f.bits \div 2))

split(f, x) ==
    LET n == f.bits \div 2
        m == HalfMask(f)
        hi == Shr(x, n)
        lo == BitAnd(x, m)
    IN  <<hi, lo>>

combine(f, hi, lo) ==
    LET n == f.bits \div 2 IN BitOr(Shl(hi, n), lo)

\* Mutant of hash: the result is not masked to the half width.
hash_unmasked(f, k, x) ==
    LET h0 == build_hasher(f.bob)
        h1 == write_u64(h0, k)
        h2 == write_u64(h1, x)
    IN  finish(h2)

hash(f, k, x) ==
    LET h0 == build_hasher(f.bob)
        h1 == write_u64(h0, k)
        h2 == write_u64(h1, x)
        res == finish(h2)
        m == HalfMask(f)
    IN  BitAnd(res, m)

\* The loop shared by encrypt and decrypt over the keys ks, in order:
\* l ^= hash(k, r), then l and r are swapped.  lr[i] is <<l, r>> after i
\* turns; the final pair is returned.
rounds(f, ks, l, r) ==
    LET turn[s \in U64 \X U64, i \in DOMAIN ks] ==
            <<s[2], BitXor(s[1], hash(f, ks[i], s[2]))>>
        lr[i \in 0..Len(ks)] ==
            IF i = 0 THEN <<l, r>> ELSE turn[lr[i - 1], i]
    IN  lr[Len(ks)]

Reverse(s) == [i \in 1..Len(s) |-> s[Len(s) + 1 - i]]

encrypt(f, x) ==
    LET lr0 == split(f, x)
        lr == rounds(f, f.keys, lr0[1], lr0[2])
    IN  combine(f, lr[2], lr[1])

decrypt(f, x) ==
    LET lr0 == split(f, x)
        lr == rounds(f, Reverse(f.keys), lr0[1], lr0[2])
    IN  combine(f, lr[2], lr[1])

\* ------------------------------------------------------------- Permutation

RECURSIVE DeriveKeys(_, _, _)
\* The key loop of Permutation::new: k = bob.hash_one(k); keys.push(k).
DeriveKeys(bob, k, i) ==
    IF i = 0 THEN <<>>
    ELSE LET k1 == hash_one(bob, k) IN <<k1>> \o DeriveKeys(bob, k1, i - 1)

\* Mutant of PermBits: an odd bit length is rounded down, not up.
PermBitsRoundDown(n) ==
    LET z == WordBits - leading_zeros(n) IN z - (z % 2)

\* The width Permutation::new gives its cipher.
PermBits(n) ==
    LET z == WordBits - leading_zeros(n) IN z + (z % 2)

\* Mutant of walk: an `if` for the `while`, one more encrypt at most.
walk_once(p, res) ==
    IF Lt(res, p.n) THEN res ELSE encrypt(p.feistel, res)

RECURSIVE walk(_, _)
\* The loop of Permutation::get: while res >= n, res = encrypt(res).
walk(p, res) ==
    IF Lt(res, p.n) THEN res ELSE walk(p, encrypt(p.feistel, res))

\* The value Permutation::get returns for x < n.
get(p, x) == walk(p, encrypt(p.feistel, x))

\* ------------------------------------------------------------------ inputs

\* Domain sizes, and arguments one past the largest of them.
Sizes == {FromNat[k] : k \in 0..MaxN}

Args == {FromNat[k] : k \in 0..(MaxN + 1)}

Seeds == {FromNat[k] : k \in 0..MaxSeed}

\* Round keys for a directly constructed cipher (two of the keys of the
\* tests of feistel.rs), in sequences of 0..MaxRounds keys.
KeySamples == {FromNat[7184], FromNat[36822]}

KeySeqs == UNION {[1..len -> KeySamples] : len \in 0..MaxRounds}

\* Widths for a directly constructed cipher: the small ones, the widths of
\* the tests, u64's own width and the two widths after it.
BitsInputs == 0..MaxBits \cup {32, 56, WordBits, WordBits + 1, WordBits + 2}

\* Block values handed to a directly constructed cipher: the whole block of
\* a small width, the values of the tests for a large one.
Blocks(f) ==
    IF f.bits <= MaxBits + 1 THEN SUBSET {b \in Word : b < f.bits}
    ELSE {FromNat[0], FromNat[17], FromNat[234]}

\* ------------------------------------------------------------------- state

VARIABLES
    perm,      \* <<p>>: the Permutation the caller holds; <<>>: none, or moved
    feistel,   \* <<f>>: a directly constructed Feistel; <<>>: none
    it,        \* <<i>>: the iterator; <<>>: none
    yielded,   \* the values the iterator's next has returned, in order
    pc,        \* "idle", "get" (inside the loop of get) or "panicked"
    call,      \* the running call of get: its caller, self, x, res
    ret        \* <<r>>: what the last completed call returned

vars == <<perm, feistel, it, yielded, pc, call, ret>>

\* trail lists the values res has taken: one per encrypt of the call.
NoCall == [caller |-> "none", self |-> <<>>, x |-> {}, res |-> {}, trail |-> <<>>]

\* A call's outcome: its name, its arguments, and val: <<v>> for a u64 or
\* Some(v), <<>> for None, for an iterator (kept in it) or for no value.
Result(op, args, val) == <<[op |-> op, args |-> args, val |-> val]>>

Init ==
    /\ perm = <<>>
    /\ feistel = <<>>
    /\ it = <<>>
    /\ yielded = <<>>
    /\ pc = "idle"
    /\ call = NoCall
    /\ ret = <<>>

\* A failed assertion: the call yields nothing and the program is over.
Panic(op, args) ==
    /\ pc' = "panicked"
    /\ ret' = Result(op, args, <<>>)

\* Nothing has been constructed yet.
Fresh == pc = "idle" /\ perm = <<>> /\ feistel = <<>> /\ it = <<>>

\* Feistel::new(bob, bits, keys), called directly.
FeistelNew(bob, bits, keys) ==
    /\ Fresh
    /\ IF FeistelNewOk(bits)
       THEN /\ feistel' = <<FeistelNewValue(bob, bits, keys)>>
            /\ ret' = Result("Feistel::new", <<FromNat[bits]>>, <<>>)
            /\ UNCHANGED pc
       ELSE /\ Panic("Feistel::new", <<FromNat[bits]>>)
            /\ UNCHANGED feistel
    /\ UNCHANGED <<perm, it, yielded, call>>

\* encrypt(x) and decrypt(x) on the directly constructed cipher.
Encrypt(x) ==
    /\ pc = "idle"
    /\ feistel # <<>>
    /\ ret' = Result("encrypt", <<x>>, <<encrypt(feistel[1], x)>>)
    /\ UNCHANGED <<perm, feistel, it, yielded, pc, call>>

Decrypt(x) ==
    /\ pc = "idle"
    /\ feistel # <<>>
    /\ ret' = Result("decrypt", <<x>>, <<decrypt(feistel[1], x)>>)
    /\ UNCHANGED <<perm, feistel, it, yielded, pc, call>>

\* Permutation::new(n, seed, bob).
PermutationNew(n, seed, bob) ==
    /\ Fresh
    /\ LET keys == DeriveKeys(bob, seed, Rounds)
           bits == PermBits(n)
       IN  IF FeistelNewOk(bits)
           THEN /\ perm' = <<[n |-> n, feistel |-> FeistelNewValue(bob, bits, keys)]>>
                /\ ret' = Result("Permutation::new", <<n, seed>>, <<>>)
                /\ UNCHANGED pc
           ELSE /\ Panic("Feistel::new", <<FromNat[bits]>>)
                /\ UNCHANGED perm
    /\ UNCHANGED <<feistel, it, yielded, call>>

\* The entry of Permutation::get(x) on p: the assertion, then the first
\* encrypt.
GetEnter(caller, p, x) ==
    IF Lt(x, p.n)
    THEN /\ pc' = "get"
         /\ call' = [caller |-> caller, self |-> <<p>>, x |-> x,
                     res |-> encrypt(p.feistel, x),
                     trail |-> <<encrypt(p.feistel, x)>>]
         /\ UNCHANGED ret
    ELSE /\ Panic("get", <<x>>)
         /\ UNCHANGED call

\* perm.get(x), called directly.  get reads the generator and changes
\* nothing, so its calls commute with the iterator's: the model makes them
\* before an iterator is made.
GetCall(x) ==
    /\ pc = "idle"
    /\ perm # <<>>
    /\ it = <<>>
    /\ GetEnter("get", perm[1], x)
    /\ UNCHANGED <<perm, feistel, it, yielded>>

\* Mutant of GetLoop: the loop encrypts x again, not res.
GetLoopFromX ==
    /\ pc = "get"
    /\ ~Lt(call.res, call.self[1].n)
    /\ Len(call.trail) < StepCap
    /\ LET res == encrypt(call.self[1].feistel, call.x)
       IN  call' = [call EXCEPT !.res = res, !.trail = Append(call.trail, res)]
    /\ UNCHANGED <<perm, feistel, it, yielded, pc, ret>>

\* One turn of the loop of get: res >= n, so res = encrypt(res).
GetLoop ==
    /\ pc = "get"
    /\ ~Lt(call.res, call.self[1].n)
    /\ Len(call.trail) < StepCap
    /\ LET res == encrypt(call.self[1].feistel, call.res)
       IN  call' = [call EXCEPT !.res = res, !.trail = Append(call.trail, res)]
    /\ UNCHANGED <<perm, feistel, it, yielded, pc, ret>>

\* The loop of get ends: res < n is returned, to the caller of get or into
\* the rest of the iterator's next (curr += 1; Some(res)).
GetReturn ==
    /\ pc = "get"
    /\ Lt(call.res, call.self[1].n)
    /\ pc' = "idle"
    /\ call' = NoCall
    /\ IF call.caller = "next"
       THEN /\ it' = <<[it[1] EXCEPT !.curr = Inc(it[1].curr)]>>
            /\ yielded' = Append(yielded, call.res)
            /\ ret' = Result("next", <<>>, <<call.res>>)
       ELSE /\ ret' = Result("get", <<call.x>>, <<call.res>>)
            /\ UNCHANGED <<it, yielded>>
    /\ UNCHANGED <<perm, feistel>>

\* Mutant of IteratorNew: the cursor starts at 0, not at begin.
IteratorNewFromZero(owned, source, begin, end) ==
    [owned |-> owned, source |-> source, curr |-> {}, end |-> end,
     begin |-> begin]

\* PermutationIterator::new / OwnedPermutationIterator::new; begin is kept
\* beside the fields only to state the claims about the cursor.
IteratorNew(owned, source, begin, end) ==
    [owned |-> owned, source |-> source, curr |-> begin, end |-> end,
     begin |-> begin]

\* perm.iter()
Iter ==
    /\ pc = "idle"
    /\ perm # <<>>
    /\ it = <<>>
    /\ it' = <<IteratorNew(FALSE, perm[1], FromNat[0], perm[1].n)>>
    /\ ret' = Result("iter", <<>>, <<>>)
    /\ UNCHANGED <<perm, feistel, yielded, pc, call>>

\* Mutant of RangeOk: the assertion end <= n is missing.
RangeOkNoUpper(p, begin, end) == Le(begin, end)

\* The two assertions of range and of into_range.
RangeOk(p, begin, end) == Le(begin, end) /\ Le(end, p.n)

\* perm.range(begin, end)
Range(begin, end) ==
    /\ pc = "idle"
    /\ perm # <<>>
    /\ it = <<>>
    /\ IF RangeOk(perm[1], begin, end)
       THEN /\ it' = <<IteratorNew(FALSE, perm[1], begin, end)>>
            /\ ret' = Result("range", <<begin, end>>, <<>>)
            /\ UNCHANGED pc
       ELSE /\ Panic("range", <<begin, end>>)
            /\ UNCHANGED it
    /\ UNCHANGED <<perm, feistel, yielded, call>>

\* perm.into_range(begin, end): perm is moved into the call.
IntoRange(begin, end) ==
    /\ pc = "idle"
    /\ perm # <<>>
    /\ it = <<>>
    /\ perm' = <<>>
    /\ IF RangeOk(perm[1], begin, end)
       THEN /\ it' = <<IteratorNew(TRUE, perm[1], begin, end)>>
            /\ ret' = Result("into_range", <<begin, end>>, <<>>)
            /\ UNCHANGED pc
       ELSE /\ Panic("into_range", <<begin, end>>)
            /\ UNCHANGED it
    /\ UNCHANGED <<feistel, yielded, call>>

\* perm.into_iter(): perm is moved into the iterator.
IntoIter ==
    /\ pc = "idle"
    /\ perm # <<>>
    /\ it = <<>>
    /\ perm' = <<>>
    /\ it' = <<IteratorNew(TRUE, perm[1], FromNat[0], perm[1].n)>>
    /\ ret' = Result("into_iter", <<>>, <<>>)
    /\ UNCHANGED <<feistel, yielded, pc, call>>

\* Mutant of IterNext: the test curr == end is missing.
IterNextNoEnd ==
    /\ pc = "idle"
    /\ it # <<>>
    /\ GetEnter("next", it[1].source, it[1].curr)
    /\ UNCHANGED <<perm, feistel, it, yielded>>

\* it.next(), of either iterator: None at the end, else get(curr) is
\* entered; GetReturn completes the call.
IterNext ==
    /\ pc = "idle"
    /\ it # <<>>
    /\ IF it[1].curr = it[1].end
       THEN /\ ret' = Result("next", <<>>, <<>>)
            /\ UNCHANGED <<pc, call>>
       ELSE GetEnter("next", it[1].source, it[1].curr)
    /\ UNCHANGED <<perm, feistel, it, yielded>>

\* The block values the cipher at hand is called with.
BlockInputs == IF feistel = <<>> THEN {} ELSE Blocks(feistel[1])

Next ==
    \/ \E bob \in Bobs, bits \in BitsInputs, keys \in KeySeqs :
          FeistelNew(bob, bits, keys)
    \/ \E x \in BlockInputs : Encrypt(x)
    \/ \E x \in BlockInputs : Decrypt(x)
    \/ \E n \in Sizes, seed \in Seeds, bob \in Bobs : PermutationNew(n, seed, bob)
    \/ \E x \in Args : GetCall(x)
    \/ GetLoop
    \/ GetReturn
    \/ Iter
    \/ \E begin \in Args, end \in Args : Range(begin, end)
    \/ \E begin \in Args, end \in Args : IntoRange(begin, end)
    \/ IntoIter
    \/ IterNext

Spec == Init /\ [][Next]_vars

\* A running call keeps running: the program is sequential and nothing
\* preempts the loop of get.
FairSpec == Spec /\ WF_vars(GetLoop) /\ WF_vars(GetReturn)

\* ------------------------------------------------------------------ claims

\* The Permutation at hand: the caller's, or the one its iterator holds.
ThePerm ==
    IF perm # <<>> THEN perm
    ELSE IF it # <<>> THEN <<it[1].source>> ELSE <<>>

\* Every cipher at hand: the directly constructed one, the generator's.
Ciphers ==
    {feistel[i] : i \in DOMAIN feistel} \cup {ThePerm[i].feistel : i \in DOMAIN ThePerm}

\* The u64 values below n (n small).
Below(n) == {FromNat[k] : k \in 0..(Val[n] - 1)} \ {n}

\* v fits a block of the given width: v < 2^bits.
InBlock(v, bits) == \A b \in v : b < bits

\* 2^b >= n and 2^b > n for a u64 n (2^64 exceeds every u64).
Pow2Ge(b, n) == b >= WordBits \/ Le(n, {b})

Pow2Gt(b, n) == b >= WordBits \/ Lt(n, {b})

\* C1: for a generator with n >= 1, get maps [0, n) into [0, n), no two
\* arguments below n have the same image, and every value below n is an
\* image; a call of get that returns, returns the value of that map.
C1_Bijection ==
    \A i \in DOMAIN ThePerm :
        LET p == ThePerm[i]
            D == Below(p.n)
            graph == {<<x, get(p, x)>> : x \in D}
        IN  Val[p.n] >= 1 =>
              /\ \A g \in graph : g[2] \in D
              /\ \A g \in graph : \A h \in graph : g[2] = h[2] => g[1] = h[1]
              /\ \A y \in D : \E g \in graph : g[2] = y
              /\ (ret # <<>> /\ ret[1].op = "get" /\ ret[1].val # <<>>) =>
                    /\ ret[1].val[1] \in D
                    /\ ret[1].val[1] = get(p, ret[1].args[1])

\* C1 witness: get has returned, on a generator over more than three values,
\* a value other than its argument.
C1_Witness ==
    /\ perm # <<>> /\ Val[perm[1].n] > 3
    /\ ret # <<>> /\ ret[1].op = "get" /\ ret[1].val # <<>>
    /\ ret[1].val[1] # ret[1].args[1]

\* C2: on a directly constructed cipher of even width with at least one
\* round key, decrypt undoes encrypt and encrypt undoes decrypt.
C2_RoundTrip ==
    \A i \in DOMAIN feistel :
        LET f == feistel[i] IN
        (f.bits % 2 = 0 /\ Len(f.keys) >= 1 /\ ret # <<>>) =>
            /\ ret[1].op = "encrypt" => decrypt(f, ret[1].val[1]) = ret[1].args[1]
            /\ ret[1].op = "decrypt" => encrypt(f, ret[1].val[1]) = ret[1].args[1]

\* The same round trip on the ciphers whose block fits a u64.
RoundTripWithin64 ==
    \A i \in DOMAIN feistel :
        LET f == feistel[i] IN
        (f.bits <= WordBits /\ ret # <<>>) =>
            /\ ret[1].op = "encrypt" => decrypt(f, ret[1].val[1]) = ret[1].args[1]
            /\ ret[1].op = "decrypt" => encrypt(f, ret[1].val[1]) = ret[1].args[1]

\* C3: every value the loop of get holds lies in [0, 2^bits), and a call of
\* get that has entered its loop returns a value.
C3_WalkTerminates ==
    /\ [](pc = "get" => \A k \in DOMAIN call.trail :
                            InBlock(call.trail[k], call.self[1].feistel.bits))
    /\ (pc = "get") ~> (pc = "idle" /\ ret # <<>> /\ ret[1].val # <<>>)

\* C3 witness: the loop of get has run at least once, so res has held a
\* value outside [0, n).
C3_Witness == pc = "get" /\ Len(call.trail) >= 2

\* C4: the iterator has yielded get(begin), get(begin + 1), ... in that
\* order, one value per position passed; once exhausted it has yielded
\* end - begin values, the slice [begin, end) of get(0), ..., get(n - 1);
\* iter and into_iter run over the whole of [0, n).
C4_RangeSequence ==
    \A i \in DOMAIN it :
        LET p == it[i].source
            b == Val[it[i].begin]
            full == [k \in 1..Val[p.n] |-> get(p, FromNat[k - 1])]
        IN  /\ Len(yielded) = Val[it[i].curr] - b
            /\ \A k \in DOMAIN yielded : yielded[k] = get(p, FromNat[b + k - 1])
            /\ it[i].curr = it[i].end =>
                  /\ Len(yielded) = Val[it[i].end] - b
                  /\ yielded = SubSeq(full, b + 1, Val[it[i].end])
            /\ it[i].begin = it[i].end => yielded = <<>>
            /\ (ret # <<>> /\ ret[1].op \in {"iter", "into_iter"}) =>
                  it[i].begin = {} /\ it[i].end = p.n

\* C4 witness: range(begin, end) with 0 < begin and end < n has been run to
\* its end and has yielded at least two values.
C4_Witness ==
    /\ it # <<>> /\ ~it[1].owned
    /\ it[1].begin # {} /\ Lt(it[1].end, it[1].source.n)
    /\ it[1].curr = it[1].end
    /\ Len(yielded) >= 2

\* C5: a call of get with x >= n, or of range or into_range with begin > end
\* or end > n, panics and yields nothing: a call of get that has returned a
\* value had x < n, get never enters its body with x >= n, a call of range
\* or into_range that has not panicked has made the iterator over its
\* arguments, and no iterator has begin > end or end > n.
C5_OutOfDomainFatal ==
    /\ \A i \in DOMAIN ret : \A j \in DOMAIN ThePerm :
          ret[i].op = "get" =>
             IF Lt(ret[i].args[1], ThePerm[j].n)
             THEN pc # "panicked" /\ ret[i].val # <<>>
             ELSE pc = "panicked" /\ ret[i].val = <<>>
    /\ \A i \in DOMAIN ret :
          ret[i].op \in {"range", "into_range"} =>
             IF pc = "panicked"
             THEN it = <<>> /\ ret[i].val = <<>>
             ELSE /\ it # <<>>
                  /\ it[1].begin = ret[i].args[1]
                  /\ it[1].end = ret[i].args[2]
    /\ pc = "get" => Lt(call.x, call.self[1].n)
    /\ \A i \in DOMAIN it :
          Le(it[i].begin, it[i].end) /\ Le(it[i].end, it[i].source.n)

\* C5 witness: get(n) has panicked on a generator with n >= 1.
C5_Witness ==
    /\ pc = "panicked" /\ perm # <<>> /\ perm[1].n # {}
    /\ ret[1].op = "get" /\ ret[1].args[1] = perm[1].n

\* C6: no generator has n = 0: Permutation::new(0, seed, bob) panics.
C6_ZeroSizeFatal ==
    \A i \in DOMAIN ThePerm : Val[ThePerm[i].n] >= 1

\* C7: every constructed cipher has an even width of at most 64 bits.
C7_BitsEvenAndFit ==
    \A f \in Ciphers : f.bits % 2 = 0 /\ f.bits <= WordBits

\* C8 as stated: for n >= 1 the generator's width is the smallest even b
\* with 2^b >= n.
C8_SmallestCovering ==
    \A i \in DOMAIN ThePerm :
        LET p == ThePerm[i] IN
        Val[p.n] >= 1 =>
            /\ p.feistel.bits % 2 = 0
            /\ Pow2Ge(p.feistel.bits, p.n)
            /\ \A b \in 0..p.feistel.bits :
                  (b % 2 = 0 /\ Pow2Ge(b, p.n)) => b = p.feistel.bits

\* C8 amended: for n >= 1 the generator's width is the smallest even b with
\* 2^b > n, which is the smallest even b at or above the bit length of n.
C8_SmallestAboveBitLength ==
    \A i \in DOMAIN ThePerm :
        LET p == ThePerm[i] IN
        Val[p.n] >= 1 =>
            /\ p.feistel.bits % 2 = 0
            /\ Pow2Gt(p.feistel.bits, p.n)
            /\ \A b \in 0..p.feistel.bits :
                  (b % 2 = 0 /\ Pow2Gt(b, p.n)) => b = p.feistel.bits

\* C8 witness: a generator over n = 4 values, where 2^2 >= n and the width
\* is 4.
C8_Witness ==
    perm # <<>> /\ perm[1].n = FromNat[4] /\ perm[1].feistel.bits = 4

\* C9: begin <= curr <= end <= n and the iterator has yielded curr - begin
\* values, at most end - begin; a step leaves begin and end alone and
\* either leaves curr alone, yielding nothing, or adds 1 to curr, yielding
\* one value; at curr = end the iterator stays as it is, and a next
\* returns None.
C9_CursorInv ==
    \A i \in DOMAIN it :
        /\ Le(it[i].begin, it[i].curr)
        /\ Le(it[i].curr, it[i].end)
        /\ Le(it[i].end, it[i].source.n)
        /\ Len(yielded) = Val[it[i].curr] - Val[it[i].begin]
        /\ Len(yielded) <= Val[it[i].end] - Val[it[i].begin]

C9_CursorStep ==
    \A i \in DOMAIN it :
        /\ it' # <<>>
        /\ it'[i].begin = it[i].begin
        /\ it'[i].end = it[i].end
        /\ it'[i].source = it[i].source
        /\ \/ it'[i].curr = it[i].curr /\ yielded' = yielded
           \/ /\ it'[i].curr = Inc(it[i].curr)
              /\ Len(yielded') = Len(yielded) + 1
              /\ ret'[1].op = "next" /\ ret'[1].val = <<yielded'[Len(yielded')]>>
        /\ it[i].curr = it[i].end =>
              /\ it' = it
              /\ yielded' = yielded
              /\ pc' # "get" \/ call'.caller # "next"
              /\ (ret' # ret /\ ret'[1].op = "next") => ret'[1].val = <<>>

\* C9: the cursor stays within begin <= curr <= end <= n in every state, and
\* every step either leaves it or moves it forward by one with one value
\* yielded; an exhausted iterator never changes.
C9_Cursor == []C9_CursorInv /\ [][C9_CursorStep]_vars

\* C9 witness: an iterator that has yielded two values or more is at its
\* end and its next has returned None.
C9_Witness ==
    /\ it # <<>> /\ it[1].curr = it[1].end /\ Len(yielded) >= 2
    /\ ret[1].op = "next" /\ ret[1].val = <<>>

\* C10: a call of get applies encrypt at most 2^bits - n + 1 times, and the
\* values it walks through are all different.
C10_WalkBound ==
    pc = "get" =>
        /\ Len(call.trail) + Val[call.self[1].n] <= 2 ^ call.self[1].feistel.bits + 1
        /\ \A j \in DOMAIN call.trail : \A k \in DOMAIN call.trail :
              call.trail[j] = call.trail[k] => j = k

\* C10 witness: a call of get has looped and has applied encrypt exactly
\* 2^bits - n + 1 times.
C10_Witness ==
    /\ pc = "get" /\ Len(call.trail) >= 2
    /\ Len(call.trail) + Val[call.self[1].n] = 2 ^ call.self[1].feistel.bits + 1

====
